---- MODULE Spec2Model ----
(***************************************************************************)
(* Model of config-backup.py: the backup batch (backup_items), the mirror  *)
(* publisher (update_for_git) and the retention eviction                   *)
(* (cleanup_old_backups), over an abstract file system.                    *)
(*                                                                         *)
(* The backup tree ~/dotfiles is modelled as one folder per name, each     *)
(* holding entries named by a timestamp (generation folders) and entries   *)
(* named by an item name (mirror entries, only under for-git).  The item   *)
(* root of an item called "for-git" and the mirror root are the same       *)
(* folder, as they are the same path on disk.                              *)
(*                                                                         *)
(* File-system calls fail nondeterministically (FaultKinds); a failing     *)
(* copy writes nothing or leaves a partial copy behind.                    *)
(***************************************************************************)
EXTENDS Integers, Sequences, FiniteSets, TLC

(* ------------------------------ constants and bounds ------------------- *)

\* MAX_BACKUPS = 5 (config-backup.py line 10)
MAX_BACKUPS == 5

\* events of the environment during the modelled sessions: a second passes, an
\* item of ~/.config is edited or removed, a file-system call fails
MaxEnv == 2
\* longest selection a batch is given
MaxSel == 2

\* The names ~/.config can hold: a directory, a plain file, and a directory
\* whose name is the name of the mirror root
Items == {"0ad", "bashrc", "for-git"}
\* get_config_items(): the sorted listings of ~/.config the sessions start from
Listings == {<<"0ad", "bashrc">>, <<"0ad", "for-git">>, <<"bashrc", "for-git">>}
SrcKind == [i \in Items |-> IF i = "bashrc" THEN "file" ELSE "dir"]
MirrorRoot == "for-git"

Timestamps == 1..(MAX_BACKUPS + MaxEnv)

FaultKinds == {"mkroot", "copy_read", "copy_partial", "mirror_mkdir", "mirror_rm",
               "mirror_copy_read", "mirror_copy_partial", "list", "delete"}

\* The sets of faults one loop iteration can meet: every fault but a failing
\* copy into the mirror (caught inside update_for_git) and a failing rmtree of an
\* old backup (caught inside cleanup_old_backups) raises out of the iteration's
\* straight-line code, so that no second fault is met after it.
MeetableFaults ==
    {{}} \cup {{f} : f \in FaultKinds}
         \cup {{a, b} : a \in {"mirror_copy_read", "mirror_copy_partial"},
                        b \in {"list", "delete"}}
FaultSets(n) == {F \in MeetableFaults : Cardinality(F) <= n}

(* ------------------------------ file-system nodes ---------------------- *)

Absent == [kind |-> "absent"]
Payload(k, v, f) == [kind |-> k, ver |-> v, full |-> f]
GenFolder(p) == [kind |-> "gen", payload |-> p]
Exists(n) == n.kind # "absent"
IsDir(n) == n.kind \in {"dir", "gen"}
Partial(n) == [n EXCEPT !.full = FALSE]

\* names of the entries of a folder of the backup tree
TsEntry(t) == [tag |-> "ts", t |-> t, name |-> ""]
NameEntry(i) == [tag |-> "name", t |-> 0, name |-> i]
NoEntry == [tag |-> "none", t |-> 0, name |-> ""]
Entries == {TsEntry(t) : t \in Timestamps} \cup {NameEntry(i) : i \in Items}

\* Order of the names as strings: "0ad" < "YYYYMMDD_HHMMSS" < "bashrc" < "for-git"
NameRank == [i \in Items |-> IF i = "0ad" THEN 0 ELSE IF i = "bashrc" THEN 1000 ELSE 1001]
Rank(e) == IF e.tag = "ts" THEN e.t ELSE NameRank[e.name]

NoRoot == [exists |-> FALSE,
           ts |-> [t \in Timestamps |-> Absent],
           named |-> [i \in Items |-> Absent]]
NoFs == [dotfiles |-> FALSE, root |-> [i \in Items |-> NoRoot]]

NodeAt(r, e) == IF e.tag = "ts" THEN r.ts[e.t] ELSE r.named[e.name]
DirEntries(r) == {e \in Entries : IsDir(NodeAt(r, e))}

Mkdir(fs, name) == [fs EXCEPT !.root[name].exists = TRUE]

RemoveEntries(fs, name, gone) ==
    [fs EXCEPT !.root[name].ts = [t \in Timestamps |->
                                     IF TsEntry(t) \in gone THEN Absent ELSE @[t]],
               !.root[name].named = [i \in Items |->
                                     IF NameEntry(i) \in gone THEN Absent ELSE @[i]]]

SourceNode(src, item) ==
    IF src[item] = 0 THEN Absent ELSE Payload(SrcKind[item], src[item], TRUE)

\* sorted(..., reverse=True)
RECURSIVE SortDesc(_)
PutFirst(m, S) == <<m>> \o SortDesc(S \ {m})
SortDesc(S) ==
    IF S = {} THEN <<>>
    ELSE PutFirst(CHOOSE e \in S : \A o \in S : Rank(o) <= Rank(e), S)

(* ------------------------------ cleanup_old_backups -------------------- *)

\* backups[MAX_BACKUPS - 1:] instead of backups[MAX_BACKUPS:]
EvictionsOf_offByOne(backups) ==
    IF Len(backups) > MAX_BACKUPS
    THEN {backups[i] : i \in MAX_BACKUPS..Len(backups)}
    ELSE {}

\* backups[MAX_BACKUPS:] of the newest-first list, when it is longer than MAX_BACKUPS
EvictionsOf(backups) ==
    IF Len(backups) > MAX_BACKUPS
    THEN {backups[i] : i \in (MAX_BACKUPS + 1)..Len(backups)}
    ELSE {}

\* lines 98-103: shutil.rmtree on each of backups_to_delete; the one that fails
\* is reported and stays
DeleteOld(fs, item, toDelete, failing) ==
    [fs |-> RemoveEntries(fs, item, toDelete \ failing), raised |-> FALSE,
     hits |-> IF failing # {} THEN {"delete"} ELSE {},
     deleted |-> toDelete \ failing]

\* bad: the folder whose rmtree fails when "delete" is injected
cleanup_old_backups(fs, item, F, bad) ==
    IF ~fs.root[item].exists
    THEN [fs |-> fs, raised |-> FALSE, hits |-> {}, deleted |-> {}]
    ELSE IF "list" \in F
    THEN [fs |-> fs, raised |-> TRUE, hits |-> {"list"}, deleted |-> {}]
    ELSE DeleteOld(fs, item, EvictionsOf(SortDesc(DirEntries(fs.root[item]))),
                   IF "delete" \in F
                   THEN EvictionsOf(SortDesc(DirEntries(fs.root[item]))) \cap {bad}
                   ELSE {})

(* ------------------------------ update_for_git ------------------------- *)

\* lines 111-131 without the removal of lines 113-118: copytree refuses an
\* existing destination, copy2 onto an existing directory copies into it
ReplaceMirror_noRemove(fs1, item, src, F) ==
    IF Exists(fs1.root[MirrorRoot].named[item]) /\ src.kind = "dir"
    THEN [fs |-> fs1, raised |-> FALSE, ret |-> FALSE, hits |-> {}]
    ELSE IF "mirror_copy_read" \in F
    THEN [fs |-> fs1, raised |-> FALSE, ret |-> FALSE, hits |-> {"mirror_copy_read"}]
    ELSE IF fs1.root[MirrorRoot].named[item].kind = "dir"
    THEN [fs |-> fs1, raised |-> FALSE, ret |-> TRUE, hits |-> {}]
    ELSE IF "mirror_copy_partial" \in F
    THEN [fs |-> [fs1 EXCEPT !.root[MirrorRoot].named[item] = Partial(src)],
          raised |-> FALSE, ret |-> FALSE, hits |-> {"mirror_copy_partial"}]
    ELSE [fs |-> [fs1 EXCEPT !.root[MirrorRoot].named[item] = src],
          raised |-> FALSE, ret |-> TRUE, hits |-> {}]

\* lines 111-131, fs1: the tree once the mirror root exists
ReplaceMirror(fs1, item, src, F) ==
    IF Exists(fs1.root[MirrorRoot].named[item]) /\ "mirror_rm" \in F
    THEN [fs |-> fs1, raised |-> TRUE, ret |-> FALSE, hits |-> {"mirror_rm"}]
    ELSE IF "mirror_copy_read" \in F
    THEN [fs |-> [fs1 EXCEPT !.root[MirrorRoot].named[item] = Absent],
          raised |-> FALSE, ret |-> FALSE, hits |-> {"mirror_copy_read"}]
    ELSE IF "mirror_copy_partial" \in F
    THEN [fs |-> [fs1 EXCEPT !.root[MirrorRoot].named[item] = Partial(src)],
          raised |-> FALSE, ret |-> FALSE, hits |-> {"mirror_copy_partial"}]
    ELSE [fs |-> [fs1 EXCEPT !.root[MirrorRoot].named[item] = src],
          raised |-> FALSE, ret |-> TRUE, hits |-> {}]

update_for_git(fs, item, src, F) ==
    IF ~fs.root[MirrorRoot].exists /\ "mirror_mkdir" \in F
    THEN [fs |-> fs, raised |-> TRUE, ret |-> FALSE, hits |-> {"mirror_mkdir"}]
    ELSE ReplaceMirror(Mkdir(fs, MirrorRoot), item, src, F)

(* ------------------------------ backup_items, one item ----------------- *)

\* what lines 164-175 would do if copytree were called with dirs_exist_ok=True:
\* a directory is copied over the generation that is already there
CreateGeneration_dirsExistOk(fs, item, t, src, F) ==
    IF ~Exists(src)
    THEN [fs |-> fs, result |-> "missing", hits |-> {}]
    ELSE IF "copy_read" \in F
    THEN [fs |-> IF src.kind = "dir" \/ Exists(fs.root[item].ts[t]) THEN fs
                 ELSE [fs EXCEPT !.root[item].ts[t] = GenFolder(Absent)],
          result |-> "raised", hits |-> {"copy_read"}]
    ELSE IF "copy_partial" \in F
    THEN [fs |-> [fs EXCEPT !.root[item].ts[t] = GenFolder(Partial(src))],
          result |-> "raised", hits |-> {"copy_partial"}]
    ELSE [fs |-> [fs EXCEPT !.root[item].ts[t] = GenFolder(src)],
          result |-> "ok", hits |-> {}]

\* lines 164-175 if a file were copied to backup_folder instead of destination:
\* <item root>/<timestamp> becomes the copy of the file, not a folder holding it
CreateGeneration_fileAsFolder(fs, item, t, src, F) ==
    IF ~Exists(src)
    THEN [fs |-> fs, result |-> "missing", hits |-> {}]
    ELSE IF "copy_read" \in F
    THEN [fs |-> fs, result |-> "raised", hits |-> {"copy_read"}]
    ELSE IF src.kind = "dir" /\ Exists(fs.root[item].ts[t])
    THEN [fs |-> fs, result |-> "raised", hits |-> {}]
    ELSE IF "copy_partial" \in F
    THEN [fs |-> [fs EXCEPT !.root[item].ts[t] = GenFolder(Partial(src))],
          result |-> "raised", hits |-> {"copy_partial"}]
    ELSE [fs |-> [fs EXCEPT !.root[item].ts[t] =
                     IF src.kind = "file" THEN src ELSE GenFolder(src)],
          result |-> "ok", hits |-> {}]

\* lines 164-175: the copy into <item root>/<timestamp>/<item>
CreateGeneration(fs, item, t, src, F) ==
    IF src.kind = "dir"
    THEN \* shutil.copytree: lists the source, then makes the destination folder
         \* (which must not exist), then copies
         IF "copy_read" \in F
         THEN [fs |-> fs, result |-> "raised", hits |-> {"copy_read"}]
         ELSE IF Exists(fs.root[item].ts[t]) /\ Exists(fs.root[item].ts[t].payload)
         THEN [fs |-> fs, result |-> "raised", hits |-> {}]
         ELSE IF "copy_partial" \in F
         THEN [fs |-> [fs EXCEPT !.root[item].ts[t] = GenFolder(Partial(src))],
               result |-> "raised", hits |-> {"copy_partial"}]
         ELSE [fs |-> [fs EXCEPT !.root[item].ts[t] = GenFolder(src)],
               result |-> "ok", hits |-> {}]
    ELSE IF src.kind = "file"
    THEN \* backup_folder.mkdir(exist_ok=True), then shutil.copy2
         IF "copy_read" \in F
         THEN [fs |-> IF Exists(fs.root[item].ts[t]) THEN fs
                      ELSE [fs EXCEPT !.root[item].ts[t] = GenFolder(Absent)],
               result |-> "raised", hits |-> {"copy_read"}]
         ELSE IF "copy_partial" \in F
         THEN [fs |-> [fs EXCEPT !.root[item].ts[t] = GenFolder(Partial(src))],
               result |-> "raised", hits |-> {"copy_partial"}]
         ELSE [fs |-> [fs EXCEPT !.root[item].ts[t] = GenFolder(src)],
               result |-> "ok", hits |-> {}]
    ELSE [fs |-> fs, result |-> "missing", hits |-> {}]

Outcome(f, ds, df, esc, o, h, del) ==
    [fs |-> f, success |-> ds, fail |-> df, escaped |-> esc, outcome |-> o,
     hits |-> h, deleted |-> del]

\* line 183 and the handlers of lines 185-190; c: what cleanup_old_backups did
AfterCleanup(c, mirrored, hits) ==
    IF c.raised
    THEN Outcome(c.fs, 1, 1, FALSE, "cleanup_raised", hits \cup c.hits, {})
    ELSE Outcome(c.fs, 1, 0, FALSE, IF mirrored THEN "ok" ELSE "ok_mirror_warned",
                 hits \cup c.hits, c.deleted)

\* lines 180-183; m: what update_for_git did
AfterMirror(m, item, F, bad, hits) ==
    IF m.raised
    THEN Outcome(m.fs, 1, 1, FALSE, "mirror_raised", hits \cup m.hits, {})
    ELSE AfterCleanup(cleanup_old_backups(m.fs, item, F, bad), m.ret, hits \cup m.hits)

\* what lines 172-183 would do if a missing source raised out of the loop
\* instead of being counted and skipped
AfterCopy_missingEscapes(g, item, src, F, bad) ==
    IF g.result = "missing"
    THEN Outcome(g.fs, 0, 0, TRUE, "escaped", g.hits, {})
    ELSE IF g.result = "raised"
    THEN Outcome(g.fs, 0, 1, FALSE, "copy_failed", g.hits, {})
    ELSE AfterMirror(update_for_git(g.fs, item, src, F), item, F, bad, g.hits)

\* lines 172-183 without the continue of line 175: a missing source is counted
\* as a failure and then goes through lines 177-183 as a created generation does
AfterCopy_noContinue(g, item, src, F, bad) ==
    IF g.result = "missing"
    THEN Outcome([g.fs EXCEPT !.root[MirrorRoot].named[item] = Absent],
                 1, 1, FALSE, "missing", g.hits, {})
    ELSE IF g.result = "raised"
    THEN Outcome(g.fs, 0, 1, FALSE, "copy_failed", g.hits, {})
    ELSE AfterMirror(update_for_git(g.fs, item, src, F), item, F, bad, g.hits)

\* lines 172-183; g: what the copy of lines 164-171 did
AfterCopy(g, item, src, F, bad) ==
    IF g.result = "missing"
    THEN Outcome(g.fs, 0, 1, FALSE, "missing", g.hits, {})
    ELSE IF g.result = "raised"
    THEN Outcome(g.fs, 0, 1, FALSE, "copy_failed", g.hits, {})
    ELSE AfterMirror(update_for_git(g.fs, item, src, F), item, F, bad, g.hits)

\* the loop body if a failed mirror publish removed the generation just made
RollBack(r, item, t) ==
    IF r.hits \cap {"mirror_mkdir", "mirror_rm", "mirror_copy_read",
                    "mirror_copy_partial"} # {}
    THEN [r EXCEPT !.fs = [r.fs EXCEPT !.root[item].ts[t] = Absent]]
    ELSE r
BackupItem_rollBack(fs, item, t, src, F, bad) ==
    IF ~fs.root[item].exists /\ "mkroot" \in F
    THEN Outcome(fs, 0, 0, TRUE, "escaped", {"mkroot"}, {})
    ELSE RollBack(AfterCopy(CreateGeneration(Mkdir(fs, item), item, t, src, F),
                            item, src, F, bad), item, t)

\* lines 148-190: the body of the loop over selected_indices;
\* program_folder.mkdir(exist_ok=True) is outside the try
BackupItem(fs, item, t, src, F, bad) ==
    IF ~fs.root[item].exists /\ "mkroot" \in F
    THEN Outcome(fs, 0, 0, TRUE, "escaped", {"mkroot"}, {})
    ELSE AfterCopy(CreateGeneration(Mkdir(fs, item), item, t, src, F), item, src, F, bad)

(* ------------------------------ earlier sessions ----------------------- *)

InitSource(list) ==
    [i \in Items |-> IF \E n \in DOMAIN list : list[n] = i THEN 1 ELSE 0]

RECURSIVE BatchFold(_, _, _, _)
BatchFold(fs, list, sel, t) ==
    IF sel = <<>> THEN fs
    ELSE BatchFold(BackupItem(fs, list[Head(sel)], t,
                              SourceNode(InitSource(list), list[Head(sel)]),
                              {}, NoEntry).fs,
                   list, Tail(sel), t)

\* the selection typed in the earlier batches: every item, last one first
HistorySel(list) == [n \in DOMAIN list |-> Len(list) + 1 - n]

\* the tree left by k earlier fault-free batches, one per second
RECURSIVE History(_, _)
History(list, k) ==
    IF k = 0 THEN NoFs
    ELSE BatchFold([History(list, k - 1) EXCEPT !.dotfiles = TRUE],
                   list, HistorySel(list), k)

(* ------------------------------ state ---------------------------------- *)

VARIABLES
    items,             \* main's items = get_config_items()
    fs,                \* the backup tree ~/dotfiles
    source,            \* ~/.config: content version of each item, 0 = missing
    now,               \* the clock, in seconds
    pc,                \* "idle", "running", "aborted"
    selected_indices,  \* the selection of the running batch, as far as the loop
                       \* has iterated over it
    timestamp,         \* the timestamp of the running batch
    success_count,
    fail_count,
    nenv,              \* events of the environment so far
    fs0,               \* the backup tree when the batch started
    log,               \* what each loop iteration of the batch did
    made               \* made[i][t]: the content captured by the successful
                       \* backup of item i at timestamp t, 0 = there was none

vars == <<items, fs, source, now, pc, selected_indices, timestamp, success_count,
          fail_count, nenv, fs0, log, made>>



Init ==
    /\ items \in Listings
    /\ \E k \in {0, MAX_BACKUPS} :
          /\ fs = History(items, k)
          /\ made = [i \in Items |-> [t \in Timestamps |->
                        IF t <= k THEN InitSource(items)[i] ELSE 0]]
    /\ source = InitSource(items)
    /\ now = MAX_BACKUPS
    /\ pc = "idle"
    /\ selected_indices = <<>>
    /\ timestamp = 0
    /\ success_count = 0
    /\ fail_count = 0
    /\ nenv = 0
    /\ fs0 = NoFs
    /\ log = <<>>

(* ------------------------------ environment ---------------------------- *)

Tick ==
    /\ pc = "idle"
    /\ nenv < MaxEnv
    /\ nenv' = nenv + 1
    /\ now' = now + 1
    /\ UNCHANGED <<items, fs, source, pc, selected_indices, timestamp, success_count,
                   fail_count, fs0, log, made>>

EditSource(i) ==
    /\ pc = "idle"
    /\ nenv < MaxEnv
    /\ nenv' = nenv + 1
    /\ source[i] # 0
    /\ source' = [source EXCEPT ![i] = @ + 1]
    /\ UNCHANGED <<items, fs, now, pc, selected_indices, timestamp, success_count,
                   fail_count, fs0, log, made>>

RemoveSource(i) ==
    /\ pc = "idle"
    /\ nenv < MaxEnv
    /\ nenv' = nenv + 1
    /\ source[i] # 0
    /\ source' = [source EXCEPT ![i] = 0]
    /\ UNCHANGED <<items, fs, now, pc, selected_indices, timestamp, success_count,
                   fail_count, fs0, log, made>>

(* ------------------------------ backup_items --------------------------- *)

\* lines 135-146; dotfiles_path.mkdir(exist_ok=True) is outside any try
StartBatch(fault) ==
    /\ pc = "idle"
    /\ selected_indices' = <<>>
    /\ timestamp' = now
    /\ success_count' = 0
    /\ fail_count' = 0
    /\ log' = <<>>
    /\ IF fault
       THEN /\ ~fs.dotfiles
            /\ nenv < MaxEnv
            /\ nenv' = nenv + 1
            /\ pc' = "aborted"
            /\ fs' = fs
       ELSE /\ nenv' = nenv
            /\ pc' = "running"
            /\ fs' = [fs EXCEPT !.dotfiles = TRUE]
    /\ fs0' = fs'
    /\ UNCHANGED <<items, source, now, made>>

\* the folders the iteration on item hands to shutil.rmtree: those one of which
\* the fault "delete" can hit
Evictable(item, F) ==
    BackupItem(fs, item, timestamp, SourceNode(source, item), F, NoEntry).deleted

\* lines 148-190, one iteration: idx is the next element of selected_indices,
\* F the faults the iteration meets
ProcessItem(idx, F) ==
    /\ pc = "running"
    /\ Len(selected_indices) < MaxSel
    /\ selected_indices' = Append(selected_indices, idx)
    /\ \E bad \in (IF "delete" \in F THEN Evictable(items[idx], F \ {"delete"})
                                       ELSE {NoEntry}) :
       \E r \in {BackupItem(fs, items[idx], timestamp,
                              SourceNode(source, items[idx]), F, bad)} :
         LET item == items[idx]
         IN  /\ r.hits = F
             /\ fs' = r.fs
             /\ success_count' = success_count + r.success
             /\ fail_count' = fail_count + r.fail
             /\ nenv' = nenv + Cardinality(F)
             /\ pc' = IF r.escaped THEN "aborted" ELSE "running"
             /\ log' = Append(log, [item |-> item, outcome |-> r.outcome,
                                     before |-> fs.root[item].ts[timestamp],
                                     deleted |-> r.deleted, hits |-> r.hits])
             /\ made' = IF r.success = 1
                        THEN [made EXCEPT ![item][timestamp] = source[item]]
                        ELSE made
    /\ UNCHANGED <<items, source, now, timestamp, fs0>>

\* lines 192-204 and main, lines 270-275: the selection (never empty) is
\* exhausted, the final result report is printed, and main asks for the next
\* selection ("Backup more items?" answered y, or the tool is run again)
Report ==
    /\ pc = "running"
    /\ Len(selected_indices) >= 1
    /\ pc' = "idle"
    /\ selected_indices' = <<>>
    /\ timestamp' = 0
    /\ success_count' = 0
    /\ fail_count' = 0
    /\ fs0' = NoFs
    /\ log' = <<>>
    /\ UNCHANGED <<items, fs, source, now, nenv, made>>

Next ==
    \/ Tick
    \/ \E n \in DOMAIN items : EditSource(items[n])
    \/ \E n \in DOMAIN items : RemoveSource(items[n])
    \/ \E fault \in BOOLEAN : StartBatch(fault)
    \/ \E idx \in DOMAIN items, F \in FaultSets(MaxEnv - nenv) : ProcessItem(idx, F)
    \/ Report

Spec == Init /\ [][Next]_vars

(* ------------------------------ vocabulary of the claims --------------- *)

\* the last iteration of the running batch (log # <<>>)
Last == log[Len(log)]
\* The loop has iterated over at least one index: the states in which the batch
\* ends if the selection holds no further index (Report is enabled)
Iterated == pc = "running" /\ log # <<>>
NoFaultInBatch == \A n \in DOMAIN log : log[n].hits = {}

Mirror(tree, i) == tree.root[MirrorRoot].named[i]
Generations(tree, i) == {t \in Timestamps : Exists(tree.root[i].ts[t])}
Complete(n) == n.kind = "gen" /\ Exists(n.payload) /\ n.payload.full

\* the timestamps of the successful backups of item i
MadeAt(i) == {t \in Timestamps : made[i][t] # 0}
\* the content captured by the most recent successful backup of item i, 0 = none
LastOk(i) ==
    IF MadeAt(i) = {} THEN 0
    ELSE made[i][CHOOSE t \in MadeAt(i) : \A u \in MadeAt(i) : u <= t]

(* ------------------------------ C1 ------------------------------------- *)

\* C1 (as claimed): after any sequence of backups of an item, each followed by
\* its eviction, the item root holds at most MAX_BACKUPS generation folders.
\* Stated for the items whose item root is not the mirror root (the claim's
\* own scenario, item nvim).
C1_RetentionBound ==
    \A i \in Items \ {MirrorRoot} :
        Cardinality(Generations(fs, i)) <= MAX_BACKUPS

(* ------------------------------ C2 ------------------------------------- *)

\* C2 (as claimed): no error of a loop iteration escapes the iteration: the
\* batch is never aborted by the processing of an item.
C2_NoErrorEscapes == ~(pc = "aborted" /\ log # <<>>)

(* ------------------------------ C3 ------------------------------------- *)

\* C3 (as claimed): an iteration that created its generation (success_count was
\* incremented) leaves fail_count unchanged, whatever fails in update_for_git or
\* in cleanup_old_backups afterwards.
C3_WarningsOnly ==
    [][(pc = "running" /\ success_count' = success_count + 1)
          => fail_count' = fail_count]_vars

(* ------------------------------ C4 ------------------------------------- *)

\* what a batch over [b] alone does, from the tree the running batch started on
Alone(b) == BackupItem(fs0, b, timestamp, SourceNode(source, b), {}, NoEntry)

\* a batch over [a, b] or [b, a], a's source missing and b's present, in which no
\* file-system call failed and whose item b a batch over [b] alone backs up
C4_Case(a, b) ==
    /\ a # b
    /\ selected_indices \in {<<a, b>>, <<b, a>>}
    /\ source[items[a]] = 0
    /\ source[items[b]] # 0
    /\ NoFaultInBatch
    /\ Alone(items[b]).outcome = "ok"

\* C4: a batch over [A, B], in either order, with A's source missing and B's
\* present, reaches its report with success_count = 1 and fail_count = 1, and
\* B's item root and B's mirror entry are those a batch over [B] alone leaves.
C4_BatchIndependence ==
    \A a, b \in DOMAIN items :
        C4_Case(a, b) =>
            /\ pc = "running"
            /\ success_count = 1
            /\ fail_count = 1
            /\ fs.root[items[b]] = Alone(items[b]).fs.root[items[b]]
            /\ Mirror(fs, items[b]) = Mirror(Alone(items[b]).fs, items[b])
            /\ Mirror(fs, items[b]) = SourceNode(source, items[b])

C4_Witness ==
    \E a, b \in DOMAIN items :
        /\ C4_Case(a, b)
        /\ selected_indices = <<a, b>>
        /\ success_count = 1
        /\ fail_count = 1
        /\ Complete(fs.root[items[b]].ts[timestamp])

(* ------------------------------ C5 ------------------------------------- *)

\* C5 (as claimed): the mirror entry of every item is absent or a full copy,
\* never a partial one.
C5_MirrorNeverPartial ==
    \A i \in Items : Exists(Mirror(fs, i)) => Mirror(fs, i).full

(* ------------------------------ C6 ------------------------------------- *)

\* C6 (as claimed): when a batch ends, the mirror entry of every item that has had
\* a successful backup is the content its most recent successful backup
\* captured.  Stated for the batches in which no file-system call fails.
C6_MirrorFresh ==
    (Iterated /\ NoFaultInBatch) =>
        \A i \in Items :
            LastOk(i) # 0 => Mirror(fs, i) = Payload(SrcKind[i], LastOk(i), TRUE)

(* ------------------------------ C7 ------------------------------------- *)

\* C7 (as claimed): the iteration that backs up item x (its eviction included)
\* deletes or changes no mirror entry of another item and no generation of
\* another item.
C7_EvictionFrame ==
    [][(pc = "running" /\ pc' = "running" /\ Len(log') = Len(log) + 1) =>
          \A i \in Items \ {log'[Len(log')].item} :
              /\ Exists(Mirror(fs, i)) => Mirror(fs', i) = Mirror(fs, i)
              /\ fs'.root[i].ts = fs.root[i].ts]_vars

(* ------------------------------ C8 ------------------------------------- *)

\* C8 (as claimed): an iteration whose generation creation failed, and that found
\* no folder <item>/<timestamp>, leaves no such folder behind.
C8_NoFolderLeft ==
    (log # <<>> /\ Last.outcome = "copy_failed" /\ ~Exists(Last.before)) =>
        ~Exists(fs.root[Last.item].ts[timestamp])

(* ------------------------------ C9 ------------------------------------- *)

\* C9 (as claimed): a complete generation never changes: in every step it stays
\* as it is or is deleted as a whole.  Stated for the steps in which no
\* file-system call fails.
C9_GenerationImmutable ==
    [][nenv' = nenv =>
          \A i \in Items, t \in Timestamps :
              Complete(fs.root[i].ts[t]) =>
                  \/ fs'.root[i].ts[t] = fs.root[i].ts[t]
                  \/ ~Exists(fs'.root[i].ts[t])]_vars

(* ------------------------------ C10 ------------------------------------ *)

\* the last iteration found a generation of its item under the batch's timestamp
Collided ==
    /\ log # <<>>
    /\ Last.before.kind = "gen"
    /\ Exists(Last.before.payload)
    /\ source[Last.item] # 0

\* C10 (as claimed): a second backup of an item under a timestamp that already
\* holds a generation of it overwrites that generation, for directory items as
\* well as file items: afterwards the folder holds the content of the second.
C10_CollisionOverwrites ==
    (Collided /\ Last.hits = {}) =>
        fs.root[Last.item].ts[timestamp] = GenFolder(SourceNode(source, Last.item))

\* C10 (amended): for a file item the second backup, when its copy succeeds,
\* overwrites the payload of the existing generation; for a directory item the
\* second backup fails, is counted as a failure, and leaves the existing
\* generation as it was.
C10_CollisionByKind ==
    Collided =>
        IF SrcKind[Last.item] = "file"
        THEN Last.hits \cap {"copy_read", "copy_partial"} = {} =>
                 /\ Last.outcome \notin {"copy_failed", "missing", "escaped"}
                 /\ fs.root[Last.item].ts[timestamp]
                        = GenFolder(SourceNode(source, Last.item))
        ELSE /\ Last.outcome = "copy_failed"
             /\ fail_count >= 1
             /\ fs.root[Last.item].ts[timestamp] = Last.before

C10_Witness ==
    /\ Collided
    /\ SrcKind[Last.item] = "dir"
    /\ Last.before.payload.ver # source[Last.item]
    /\ Last.outcome = "copy_failed"
    /\ fs.root[Last.item].ts[timestamp] = Last.before

(* ------------------------------ C11 ------------------------------------ *)

\* the last iteration ran cleanup_old_backups to its end and every rmtree worked
EvictionRan ==
    /\ log # <<>>
    /\ Last.outcome \in {"ok", "ok_mirror_warned"}
    /\ "delete" \notin Last.hits

\* the directories of the item root that the last iteration's eviction kept, and
\* the directories it listed
KeptByLast == DirEntries(fs.root[Last.item])
ListedByLast == KeptByLast \cup Last.deleted

\* C11: the eviction deletes exactly the directories of the item root beyond the
\* first MAX_BACKUPS of the newest-first list: max(0, len - MAX_BACKUPS) of
\* them, none when len <= MAX_BACKUPS, each sorting below (for folders named by
\* a timestamp: older than) every directory it keeps; entries that are not
\* directories are neither counted nor deleted.
C11_EvictionSelection ==
    EvictionRan =>
        /\ Last.deleted \cap KeptByLast = {}
        /\ Cardinality(Last.deleted)
               = IF Cardinality(ListedByLast) > MAX_BACKUPS
                 THEN Cardinality(ListedByLast) - MAX_BACKUPS ELSE 0
        /\ Last.deleted # {} => Cardinality(KeptByLast) = MAX_BACKUPS
        /\ \A d \in Last.deleted : \A k \in KeptByLast : Rank(d) < Rank(k)
        /\ \A d \in Last.deleted : \A k \in KeptByLast :
               (d.tag = "ts" /\ k.tag = "ts") => d.t < k.t
        /\ \A d \in Last.deleted : d.tag = "name" => SrcKind[d.name] = "dir"
        /\ \A i \in Items :
               (i # Last.item /\ SrcKind[i] = "file"
                  /\ Exists(fs0.root[Last.item].named[i])
                  /\ \A n \in DOMAIN log : log[n].item = Last.item)
               => fs.root[Last.item].named[i] = fs0.root[Last.item].named[i]

\* an eviction that deleted a generation from an item root that also holds an
\* entry that is not a directory
C11_Witness ==
    /\ EvictionRan
    /\ \E d \in Last.deleted : d.tag = "ts"
    /\ Cardinality(KeptByLast) = MAX_BACKUPS
    /\ \E i \in Items : /\ Exists(fs.root[Last.item].named[i])
                        /\ ~IsDir(fs.root[Last.item].named[i])

(* ------------------------------ update_for_git on its own -------------- *)

\* update_for_git called again and again for one item, from every state the
\* item's mirror entry can be found in: absent, a file or a directory, of any
\* content, whole or left partial by a failed copy

MaxPublish == 2

Versions == 1..(1 + MaxEnv)
PriorMirrors ==
    {Absent} \cup {Payload(k, v, f) : k \in {"file", "dir"}, v \in Versions, f \in BOOLEAN}
PublishFaults == {{}, {"mirror_rm"}, {"mirror_copy_read"}, {"mirror_copy_partial"}}

\* the item update_for_git is called for
Published == items[selected_indices[1]]

PublishInit ==
    /\ items \in Listings
    /\ \E idx \in DOMAIN items, v \in Versions, prior \in PriorMirrors :
          /\ selected_indices = <<idx>>
          /\ source = [InitSource(items) EXCEPT ![items[idx]] = v]
          /\ fs = [Mkdir([NoFs EXCEPT !.dotfiles = TRUE], MirrorRoot)
                      EXCEPT !.root[MirrorRoot].named[items[idx]] = prior]
    /\ fs0 = fs
    /\ made = [i \in Items |-> [t \in Timestamps |-> 0]]
    /\ now = MAX_BACKUPS
    /\ pc = "publishing"
    /\ timestamp = 0
    /\ success_count = 0
    /\ fail_count = 0
    /\ nenv = 0
    /\ log = <<>>

Publish(F) ==
    /\ pc = "publishing"
    /\ Len(log) < MaxPublish
    /\ \E m \in {update_for_git(fs, Published, SourceNode(source, Published), F)} :
          /\ m.hits = F
          /\ fs' = m.fs
          /\ log' = Append(log, [item |-> Published,
                                 outcome |-> IF m.raised THEN "mirror_raised"
                                             ELSE IF m.ret THEN "published"
                                             ELSE "warned",
                                 before |-> Mirror(fs, Published),
                                 deleted |-> {},
                                 hits |-> m.hits])
    /\ UNCHANGED <<items, source, now, pc, selected_indices, timestamp, success_count,
                   fail_count, nenv, fs0, made>>

PublishNext == \E F \in PublishFaults : Publish(F)

SpecPublish == PublishInit /\ [][PublishNext]_vars

(* ------------------------------ C12 ------------------------------------ *)

\* C12: a call of update_for_git that succeeds leaves the mirror entry of the item
\* identical to the source, whatever the entry was before (absent, a file, a
\* directory, whole or partial); and when the call before it succeeded too, on
\* the same source, it leaves the whole tree as that call left it.
C12_MirrorIdempotent ==
    [][(Len(log') = Len(log) + 1 /\ log'[Len(log')].outcome = "published") =>
          /\ Mirror(fs', Published) = SourceNode(source, Published)
          /\ (log # <<>> /\ Last.outcome = "published") => fs' = fs]_vars

\* two successful calls in a row, the first of which found a partial directory
\* where the source is a file
C12_Witness ==
    /\ pc = "publishing"
    /\ Len(log) = 2
    /\ log[1].outcome = "published"
    /\ log[2].outcome = "published"
    /\ log[1].before.kind = "dir"
    /\ ~log[1].before.full
    /\ SrcKind[Published] = "file"
    /\ Mirror(fs, Published) = SourceNode(source, Published)

(* ------------------------------ C13 ------------------------------------ *)

MirrorFaults == {"mirror_mkdir", "mirror_rm", "mirror_copy_read", "mirror_copy_partial"}

\* the last iteration created its generation and then met a failure in
\* update_for_git, raised or reported by its return value
MirrorFailed == log # <<>> /\ Last.hits \cap MirrorFaults # {}

\* C13: after an iteration whose generation creation succeeded and whose mirror
\* publish failed, in any of the four ways it can, the generation
\* <item>/<timestamp>/<item> exists and holds the full content of the source.
C13_GenerationSurvivesMirrorFailure ==
    MirrorFailed =>
        /\ Last.outcome \in {"ok_mirror_warned", "mirror_raised", "cleanup_raised"}
        /\ fs.root[Last.item].ts[timestamp] = GenFolder(SourceNode(source, Last.item))
        /\ Complete(fs.root[Last.item].ts[timestamp])

\* a publish that failed in the copy, followed by an eviction that deleted an
\* older generation
C13_Witness ==
    /\ MirrorFailed
    /\ Last.outcome = "ok_mirror_warned"
    /\ ~Exists(Last.before)
    /\ Last.deleted # {}
    /\ Complete(fs.root[Last.item].ts[timestamp])

(* ------------------------------ C14 ------------------------------------ *)

\* the last iteration backed its item up, published it and evicted, and no
\* file-system call failed
BackedUp == log # <<>> /\ Last.outcome = "ok" /\ Last.hits = {}

\* C14: after a successful backup of an item, the payload <item>/<ts>/<item> of
\* its generation and its mirror entry for-git/<item> both have the kind (file
\* or directory) and the content of the source.
C14_PayloadFidelity ==
    BackedUp =>
        /\ fs.root[Last.item].ts[timestamp].kind = "gen"
        /\ fs.root[Last.item].ts[timestamp].payload = SourceNode(source, Last.item)
        /\ fs.root[Last.item].ts[timestamp].payload.kind = SrcKind[Last.item]
        /\ Mirror(fs, Last.item) = SourceNode(source, Last.item)
        /\ Mirror(fs, Last.item).kind = SrcKind[Last.item]
        /\ Mirror(fs, Last.item).full

\* the file item, edited since its earlier backups, backed up again
C14_Witness ==
    /\ BackedUp
    /\ Last.item = "bashrc"
    /\ source["bashrc"] > 1
    /\ fs.root["bashrc"].ts[timestamp].payload = Payload("file", source["bashrc"], TRUE)
    /\ Mirror(fs, "bashrc") = Payload("file", source["bashrc"], TRUE)

(* ------------------------------ get_user_selection --------------------- *)

\* One prompt of get_user_selection: the line typed is a list of tokens
\* (user_input.replace(',', ' ').split()), each a number or a text int() refuses.

MaxTokens == 3

NumToken(n) == [text |-> FALSE, num |-> n]
TextToken == [text |-> TRUE, num |-> 0]
\* the numbers 0 and max_num + 1 are out of range
Tokens(max_num) == {NumToken(n) : n \in 0..(max_num + 1)} \cup {TextToken}
InputLines(max_num) == UNION {[1..n -> Tokens(max_num)] : n \in 0..MaxTokens}

\* lines 68-73: the loop over parts; int(part) raises ValueError on a text, which
\* leaves the loop and the try
RECURSIVE ParseParts(_, _, _, _)
ParseParts(parts, max_num, numbers, reports) ==
    IF parts = <<>>
    THEN [numbers |-> numbers, reports |-> reports, value_error |-> FALSE]
    ELSE IF Head(parts).text
    THEN [numbers |-> numbers, reports |-> reports, value_error |-> TRUE]
    ELSE IF 1 <= Head(parts).num /\ Head(parts).num <= max_num
    THEN ParseParts(Tail(parts), max_num, Append(numbers, Head(parts).num), reports)
    ELSE ParseParts(Tail(parts), max_num, numbers,
                    Append(reports, [msg |-> "out_of_range", num |-> Head(parts).num]))

\* lines 63-81, p: what the loop did; returned: the function returns numbers,
\* otherwise it prints one more message and prompts again
AfterParse(p) ==
    IF p.value_error
    THEN [returned |-> FALSE, numbers |-> <<>>,
          reports |-> Append(p.reports, [msg |-> "valid_numbers_only", num |-> 0])]
    ELSE IF p.numbers # <<>>
    THEN [returned |-> TRUE, numbers |-> p.numbers, reports |-> p.reports]
    ELSE [returned |-> FALSE, numbers |-> <<>>,
          reports |-> Append(p.reports, [msg |-> "at_least_one_valid", num |-> 0])]

get_user_selection(parts, max_num) == AfterParse(ParseParts(parts, max_num, <<>>, <<>>))

SelectInit ==
    /\ items \in Listings
    /\ fs = NoFs
    /\ source = InitSource(items)
    /\ made = [i \in Items |-> [t \in Timestamps |-> 0]]
    /\ now = MAX_BACKUPS
    /\ pc = "choosing"
    /\ selected_indices = <<>>
    /\ timestamp = 0
    /\ success_count = 0
    /\ fail_count = 0
    /\ nenv = 0
    /\ fs0 = NoFs
    /\ log = <<>>

\* one pass of the while loop of lines 51-81 on a line of tokens
Prompt(parts) ==
    /\ pc = "choosing"
    /\ \E r \in {get_user_selection(parts, Len(items))} :
          /\ pc' = IF r.returned THEN "selected" ELSE "choosing"
          /\ selected_indices' = r.numbers
          /\ log' = <<[input |-> parts, reports |-> r.reports]>>
    /\ UNCHANGED <<items, fs, source, now, timestamp, success_count, fail_count,
                   nenv, fs0, made>>

SelectNext == \E parts \in InputLines(Len(items)) : Prompt(parts)

SpecSelect == SelectInit /\ [][SelectNext]_vars

(* ------------------------------ C15 ------------------------------------ *)

IsValid(tok, max_num) == ~tok.text /\ 1 <= tok.num /\ tok.num <= max_num
RECURSIVE ValidIndices(_, _)
ValidIndices(parts, max_num) ==
    IF parts = <<>> THEN <<>>
    ELSE IF IsValid(Head(parts), max_num)
    THEN <<Head(parts).num>> \o ValidIndices(Tail(parts), max_num)
    ELSE ValidIndices(Tail(parts), max_num)
InvalidCount(parts, max_num) ==
    Cardinality({n \in DOMAIN parts : ~IsValid(parts[n], max_num)})

\* C15 (as claimed): after a prompt on a line that holds at least one valid
\* index, get_user_selection has returned exactly the valid indices of the
\* line, in input order, and has reported each invalid token of the line (a
\* number out of range or a text) by a message of its own.
C15_SelectionParsing ==
    (pc \in {"choosing", "selected"} /\ log # <<>>
       /\ ValidIndices(Last.input, Len(items)) # <<>>) =>
        /\ pc = "selected"
        /\ selected_indices = ValidIndices(Last.input, Len(items))
        /\ Len(Last.reports) = InvalidCount(Last.input, Len(items))

(* ------------------------------ C16 ------------------------------------ *)

\* C16 (as claimed): in an iteration the success count is incremented last, after
\* the generation creation, the mirror publish and the eviction: an iteration
\* that increments success_count has run update_for_git and then
\* cleanup_old_backups to their end; in particular the eviction has run after
\* the generation creation whether or not the mirror publish succeeded.
C16_StepOrder ==
    [][(pc = "running" /\ Len(log') = Len(log) + 1
          /\ success_count' = success_count + 1)
          => log'[Len(log')].outcome \in {"ok", "ok_mirror_warned"}]_vars

(* ------------------------------ C17 ------------------------------------ *)

\* C17: an iteration on an item whose source is neither a file nor a directory,
\* in which no file-system call fails, increments fail_count by one, leaves
\* success_count unchanged, creates or changes no generation of any item,
\* leaves every mirror entry unchanged, evicts nothing, and the loop goes on;
\* all it leaves in the tree is the (possibly new, empty) item root.
C17_MissingSourcePureFailure ==
    [][(pc = "running" /\ Len(log') = Len(log) + 1
          /\ source[log'[Len(log')].item] = 0
          /\ log'[Len(log')].hits = {})
          => /\ fail_count' = fail_count + 1
             /\ success_count' = success_count
             /\ \A i \in Items : /\ fs'.root[i].ts = fs.root[i].ts
                                 /\ fs'.root[i].named = fs.root[i].named
             /\ fs' = Mkdir(fs, log'[Len(log')].item)
             /\ log'[Len(log')].deleted = {}
             /\ log'[Len(log')].outcome = "missing"
             /\ made' = made
             /\ pc' = "running"]_vars

\* a batch that met a missing source first and then backed up the next item
C17_Witness ==
    /\ pc = "running"
    /\ Len(log) = 2
    /\ source[log[1].item] = 0
    /\ log[1].outcome = "missing"
    /\ log[2].outcome = "ok"
    /\ fail_count = 1
    /\ success_count = 1
    /\ Generations(fs, log[1].item) = Generations(fs0, log[1].item)

(* ------------------------------ C18 ------------------------------------ *)

\* C18 (as claimed): when the loop has iterated over the selection, success_count
\* + fail_count is the number of selected indices, whatever failed in the
\* generation creation, the mirror publish and the eviction of each item.
C18_CountAccounting ==
    Iterated => success_count + fail_count = Len(selected_indices)

(* ------------------------------ backups into any item root ------------- *)

\* Batches on an item root that already holds any set of generation folders,
\* at any clock reading: the timestamp is local time (line 137), which falls
\* back at the end of daylight saving time or when the clock is set, so that
\* the folders present can be newer than the batch.  No file-system call fails.
AnyRootInit ==
    /\ items \in Listings
    /\ \E G \in SUBSET Timestamps :
          /\ fs = [Mkdir([NoFs EXCEPT !.dotfiles = TRUE], items[1])
                      EXCEPT !.root[items[1]].ts = [t \in Timestamps |->
                          IF t \in G
                          THEN GenFolder(SourceNode(InitSource(items), items[1]))
                          ELSE Absent]]
          /\ made = [i \in Items |-> [t \in Timestamps |->
                        IF i = items[1] /\ t \in G THEN 1 ELSE 0]]
    /\ source = InitSource(items)
    /\ now \in Timestamps
    /\ pc = "idle"
    /\ selected_indices = <<>>
    /\ timestamp = 0
    /\ success_count = 0
    /\ fail_count = 0
    /\ nenv = 0
    /\ fs0 = NoFs
    /\ log = <<>>

AnyRootNext ==
    \/ StartBatch(FALSE)
    \/ \E idx \in DOMAIN items : ProcessItem(idx, {})
    \/ Report

SpecAnyRoot == AnyRootInit /\ [][AnyRootNext]_vars

(* ------------------------------ C19 ------------------------------------ *)

\* C19 (as claimed): after an iteration that backed its item up and ran the
\* eviction, the generation it created is present in the item root, whatever
\* the batch's timestamp and whatever folders the item root already held.
C19_NewestSurvives ==
    (log # <<>> /\ Last.outcome \in {"ok", "ok_mirror_warned"}) =>
        Exists(fs.root[Last.item].ts[timestamp])

====
